---- MODULE Spec2Model ----
(***************************************************************************)
(* Model of the Invoicer storage engine (storage.js: Storage), the part of *)
(* the application that persists one JSON document in localStorage, and of *)
(* the handlers of the page that call it (app.js: App, ui.js: UI, the      *)
(* theme script).                                                          *)
(*                                                                         *)
(* JavaScript values are modelled as follows.  An object is a function    *)
(* from the names of its own properties to their values; a property that  *)
(* holds undefined has the value Undefined.  The argument of saveInvoice  *)
(* is wrapped as [type, props] so that typeof and null can be told apart; *)
(* the items property is wrapped as [kind, elems] so that Array.isArray   *)
(* can be decided.  A localStorage item is a record [kind]: no item, a    *)
(* text that JSON.parse rejects, or the text of a document; the kind      *)
(* "unavailable" stands for a localStorage whose every access throws.     *)
(*                                                                         *)
(* The page may be open in several tabs over the same localStorage.  form *)
(* holds, for each tab, the fields of its editor form; sessions records   *)
(* the tab that submitted its form last, the form as it was submitted,    *)
(* and for each tab the invoice its last successful save handed to        *)
(* Storage.  page holds, for each tab, what its document shows: the       *)
(* classes of the view sections, the rows and totals of the dashboard,    *)
(* the content of the print view, the print timers that have not fired    *)
(* and the theme classes of the root element.  event records the handler  *)
(* that ran last in the page and what it was given.                        *)
(***************************************************************************)
EXTENDS Integers, Sequences, FiniteSets, TLC

VARIABLES store, theme, uuidCount, loaded, last, form, sessions, page, event

vars == <<store, theme, uuidCount, loaded, last, form, sessions, page, event>>

\* what the calls of Storage leave alone
ui == <<form, sessions, page, event>>

\* ---------------------------------------------------------------- bounds
MaxInvoices == 2
MaxUuid == 1
MaxStamped == 1
MaxTimers == 2

\* ------------------------------------------------------------- constants
APP_VERSION == "1.0.0"
Undefined == "undefined"
QUOTA_EXCEEDED == "QUOTA_EXCEEDED"
WRITE_ERROR == "WRITE_ERROR"

\* ------------------------------------------------------- JavaScript values
Has(obj, f) == f \in DOMAIN obj

\* obj[f] for a property holding a string (undefined when absent)
Get(obj, f) == IF Has(obj, f) THEN obj[f] ELSE Undefined

\* truthiness of a string-valued expression
TruthyStr(v) == v # Undefined /\ v # ""

\* the object obj with property f set to v
Assign(obj, f, v) == (f :> v) @@ obj

\* { ...b, ...a }: the spread with its operands exchanged
Spread_reversed(a, b) == a @@ b

\* { ...a, ...b }
Spread(a, b) == b @@ a

IsArray(v) == v.kind = "array"

\* an array with the elements elems; an object as an argument of a call
ArrayOf(elems) == [kind |-> "array", elems |-> elems]
Object(props) == [type |-> "object", props |-> props]

\* ------------------------------------------------------------ strings
\* The characters of the strings that take part in a search: TLC cannot
\* take a string apart, so each string is listed with its characters.
Chars ==
    ("" :> <<>>)
    @@ ("a" :> <<"a">>)
    @@ ("B2" :> <<"B", "2">>)
    @@ ("u1" :> <<"u", "1">>)
    @@ ("u2" :> <<"u", "2">>)
    @@ ("u3" :> <<"u", "3">>)
    @@ ("u4" :> <<"u", "4">>)
    @@ ("Acme" :> <<"A", "c", "m", "e">>)
    @@ ("Globex" :> <<"G", "l", "o", "b", "e", "x">>)
    @@ ("billing@acme.com" :>
            <<"b", "i", "l", "l", "i", "n", "g", "@", "a", "c", "m", "e", ".", "c", "o", "m">>)
    @@ ("draft" :> <<"d", "r", "a", "f", "t">>)
    @@ ("paid" :> <<"p", "a", "i", "d">>)
    @@ ("Hosting" :> <<"H", "o", "s", "t", "i", "n", "g">>)
    @@ ("Design" :> <<"D", "e", "s", "i", "g", "n">>)
    @@ ("hosting" :> <<"h", "o", "s", "t", "i", "n", "g">>)
    @@ ("ACME" :> <<"A", "C", "M", "E">>)
    @@ ("b2" :> <<"b", "2">>)
    @@ ("Paid" :> <<"P", "a", "i", "d">>)
    @@ ("@ACME" :> <<"@", "A", "C", "M", "E">>)
    @@ ("sign" :> <<"s", "i", "g", "n">>)
    @@ ("xyz" :> <<"x", "y", "z">>)

UpperCase == <<"A", "B", "C", "D", "E", "G", "H", "M", "P">>
LowerCase == <<"a", "b", "c", "d", "e", "g", "h", "m", "p">>

\* String.prototype.toLowerCase, on the characters of a string
toLowerCase(text) ==
    [i \in 1..Len(text) |->
        IF \E k \in 1..Len(UpperCase) : UpperCase[k] = text[i]
        THEN LowerCase[CHOOSE k \in 1..Len(UpperCase) : UpperCase[k] = text[i]]
        ELSE text[i]]

\* String.prototype.includes, on the characters of two strings
includes(text, term) ==
    \E k \in 0..(Len(text) - Len(term)) : SubSeq(text, k + 1, k + Len(term)) = term

\* ---------------------------------------------------------- localStorage
NoItem == [kind |-> "none"]
Corrupt == [kind |-> "corrupt"]
Unavailable == [kind |-> "unavailable"]

\* _isStorageAvailable(): the probe writes and removes a test item
_isStorageAvailable(st) == st.kind # "unavailable"

\* the properties of an invoice that hold a string or undefined
StringProps == {"id", "createdDate", "dueDate", "status", "notes", "updatedAt"}

\* JSON.stringify drops the properties of an invoice that hold undefined
StripUndefined(obj) ==
    [f \in {g \in DOMAIN obj : g \notin StringProps \/ obj[g] # Undefined} |-> obj[f]]

StringifyDoc(data) ==
    IF Has(data, "invoices")
    THEN Assign(data, "invoices",
                [i \in 1..Len(data["invoices"]) |-> StripUndefined(data["invoices"][i])])
    ELSE data

JSONstringify(data) == [kind |-> "json", doc |-> StringifyDoc(data)]

\* localStorage.length
StorageLength == (IF store.kind = "none" THEN 0 ELSE 1)
                 + (IF theme = "none" THEN 0 ELSE 1)

\* ------------------------------------------------------------ Storage
_getDefaults ==
    [version |-> APP_VERSION,
     invoices |-> <<>>,
     settings |-> [currency |-> "USD", defaultTaxRate |-> 0]]

\* getData: the parsed document, or the defaults when there is no item or
\* getItem or JSON.parse throws
getData(st) == IF st.kind = "json" THEN st.doc ELSE _getDefaults

\* an _isQuotaExceeded that does not look at localStorage.length
_isQuotaExceeded_anyLength(e, length) == e = "quota"

\* _isQuotaExceeded(e): e is the error thrown by setItem
_isQuotaExceeded(e, length) == e = "quota" /\ length # 0

\* a saveData that removes the item before it writes the new text
saveDataStore_removesFirst(st, data, w) ==
    IF w = "ok" THEN [kind |-> "json", doc |-> StringifyDoc(data)] ELSE [kind |-> "none"]

\* saveData(data) under the outcome w of localStorage.setItem:
\* "ok", or the error it throws ("quota", "other")
\* a saveData that refuses to write over an item it cannot parse
saveDataStore_keepsCorrupt(st, data, w) ==
    IF w = "ok" /\ st.kind # "corrupt" THEN JSONstringify(data) ELSE st

saveDataStore(st, data, w) == IF w = "ok" THEN JSONstringify(data) ELSE st

saveDataThrows(w, length) ==
    IF w = "ok" THEN "none"
    ELSE IF _isQuotaExceeded(w, length) THEN QUOTA_EXCEEDED ELSE WRITE_ERROR

getInvoices(st) ==
    LET data == getData(st)
    IN IF Has(data, "invoices") THEN data["invoices"] ELSE <<>>

\* a findIndex whose comparison never succeeds
findIndex_never(invoices, id) == 0

\* invoices.findIndex(inv => inv.id === id), 0 when there is none
findIndex(invoices, id) ==
    IF \E i \in 1..Len(invoices) : Get(invoices[i], "id") = id
    THEN CHOOSE i \in 1..Len(invoices) :
            /\ Get(invoices[i], "id") = id
            /\ \A j \in 1..(i - 1) : Get(invoices[j], "id") # id
    ELSE 0

\* getInvoice(id): <<invoice>> when found, <<>> for null
getInvoice(st, id) ==
    LET invoices == getInvoices(st)
        i == findIndex(invoices, id)
    IN IF i > 0 THEN <<invoices[i]>> ELSE <<>>

\* _validateInvoice without the test for an empty items list
_validateInvoice_anyLength(arg) ==
    IF arg.type # "object" THEN FALSE
    ELSE LET invoice == arg.props
         IN IF \E field \in {"client", "items"} : ~Has(invoice, field) THEN FALSE
            ELSE IF ~TruthyStr(Get(invoice["client"], "name")) THEN FALSE
            ELSE IsArray(invoice["items"])

_validateInvoice(arg) ==
    IF arg.type # "object" THEN FALSE
    ELSE LET invoice == arg.props
         IN IF \E field \in {"client", "items"} : ~Has(invoice, field) THEN FALSE
            ELSE IF ~TruthyStr(Get(invoice["client"], "name")) THEN FALSE
            ELSE IF ~IsArray(invoice["items"]) \/ Len(invoice["items"].elems) = 0 THEN FALSE
            ELSE TRUE

\* a return value, a thrown StorageError
Return(v) == [kind |-> "return", value |-> v]
Throw(code) == [kind |-> "throw", code |-> code]

\* crypto.randomUUID(): the n-th identifier it hands out
UuidNames == <<"u1", "u2", "u3", "u4">>
randomUUID(n) == UuidNames[n]

\* upsert that removes the entry it updates and appends the merged one
upsert_movesToEnd(data, invoice, now, uuid) ==
    LET invoices == data["invoices"]
        id == Get(invoice, "id")
        index == IF \E i \in 1..Len(invoices) : Get(invoices[i], "id") = id
                 THEN CHOOSE i \in 1..Len(invoices) : Get(invoices[i], "id") = id
                 ELSE 0
    IN IF index > 0
       THEN (("invoices" :> Append(SelectSeq(invoices, LAMBDA inv : Get(inv, "id") # id),
                                   ("updatedAt" :> now) @@ invoice @@ invoices[index]))
             @@ data)
       ELSE LET withId == IF Get(invoice, "id") \in {Undefined, ""}
                          THEN ("id" :> uuid) @@ invoice ELSE invoice
                withDate == IF Get(withId, "createdDate") \in {Undefined, ""}
                            THEN ("createdDate" :> now) @@ withId ELSE withId
            IN ("invoices" :> Append(invoices, withDate)) @@ data

\* upsert whose update stores the incoming invoice without merging it
\* into the stored entry
upsert_replacesEntry(data, invoice, now, uuid) ==
    LET invoices == data["invoices"]
        id == Get(invoice, "id")
        index == IF \E i \in 1..Len(invoices) : Get(invoices[i], "id") = id
                 THEN CHOOSE i \in 1..Len(invoices) : Get(invoices[i], "id") = id
                 ELSE 0
    IN IF index > 0
       THEN ("invoices" :> [invoices EXCEPT ![index] = ("updatedAt" :> now) @@ invoice])
            @@ data
       ELSE LET withId == IF Get(invoice, "id") \in {Undefined, ""}
                          THEN ("id" :> uuid) @@ invoice ELSE invoice
                withDate == IF Get(withId, "createdDate") \in {Undefined, ""}
                            THEN ("createdDate" :> now) @@ withId ELSE withId
            IN ("invoices" :> Append(invoices, withDate)) @@ data

\* upsert that stamps createdDate on every invoice it creates
upsert_alwaysStamps(data, invoice, now, uuid) ==
    LET invoices == data["invoices"]
        id == Get(invoice, "id")
        index == IF \E i \in 1..Len(invoices) : Get(invoices[i], "id") = id
                 THEN CHOOSE i \in 1..Len(invoices) : Get(invoices[i], "id") = id
                 ELSE 0
    IN IF index > 0
       THEN ("invoices" :> [invoices EXCEPT ![index] =
                               ("updatedAt" :> now) @@ invoice @@ invoices[index]])
            @@ data
       ELSE LET withId == IF Get(invoice, "id") \in {Undefined, ""}
                          THEN ("id" :> uuid) @@ invoice ELSE invoice
            IN ("invoices" :> Append(invoices, ("createdDate" :> now) @@ withId)) @@ data

\* upsert whose update keeps the stored value of every field the stored
\* entry has
upsert_keepsStored(data, invoice, now, uuid) ==
    LET invoices == data["invoices"]
        id == Get(invoice, "id")
        index == IF \E i \in 1..Len(invoices) : Get(invoices[i], "id") = id
                 THEN CHOOSE i \in 1..Len(invoices) : Get(invoices[i], "id") = id
                 ELSE 0
    IN IF index > 0
       THEN ("invoices" :> [invoices EXCEPT ![index] =
                               ("updatedAt" :> now) @@ invoices[index] @@ invoice])
            @@ data
       ELSE LET withId == IF Get(invoice, "id") \in {Undefined, ""}
                          THEN ("id" :> uuid) @@ invoice ELSE invoice
                withDate == IF Get(withId, "createdDate") \in {Undefined, ""}
                            THEN ("createdDate" :> now) @@ withId ELSE withId
            IN ("invoices" :> Append(invoices, withDate)) @@ data

\* a saveInvoice that builds the document to write from the defaults
upsert_fromDefaults(data, invoice, now, uuid) ==
    LET invoices == data["invoices"]
        index == findIndex(invoices, Get(invoice, "id"))
    IN IF index > 0
       THEN Assign(_getDefaults, "invoices",
                   [invoices EXCEPT ![index] =
                       Assign(Spread(invoices[index], invoice), "updatedAt", now)])
       ELSE LET withId == IF ~TruthyStr(Get(invoice, "id"))
                          THEN Assign(invoice, "id", uuid) ELSE invoice
                withDate == IF ~TruthyStr(Get(withId, "createdDate"))
                            THEN Assign(withId, "createdDate", now) ELSE withId
            IN Assign(_getDefaults, "invoices", Append(invoices, withDate))

\* the body of saveInvoice's try block up to the call of saveData: the
\* document with the invoice merged into its entry or appended
upsert(data, invoice, now, uuid) ==
    LET invoices == data["invoices"]
        index == findIndex(invoices, Get(invoice, "id"))
    IN IF index > 0
       THEN Assign(data, "invoices",
                   [invoices EXCEPT ![index] =
                       Assign(Spread(invoices[index], invoice), "updatedAt", now)])
       ELSE LET withId == IF ~TruthyStr(Get(invoice, "id"))
                          THEN Assign(invoice, "id", uuid) ELSE invoice
                withDate == IF ~TruthyStr(Get(withId, "createdDate"))
                            THEN Assign(withId, "createdDate", now) ELSE withId
            IN Assign(data, "invoices", Append(invoices, withDate))

\* a catch block that logs every error and returns false
saveInvoiceResult_swallows(thrown) == [kind |-> "return", value |-> thrown = "none"]

\* what saveInvoice returns or throws when its try block raised `thrown'
\* ("none": it ran to the end): a StorageError is thrown again, any other
\* error gives false
saveInvoiceResult(thrown) ==
    IF thrown = "none" THEN Return(TRUE)
    ELSE IF thrown \in {QUOTA_EXCEEDED, WRITE_ERROR} THEN Throw(thrown)
    ELSE Return(FALSE)

\* a filter that drops the first entry whenever some entry has the id
filterOut_first(invoices, id) ==
    IF \E i \in 1..Len(invoices) : Get(invoices[i], "id") = id
    THEN Tail(invoices) ELSE invoices

\* data.invoices.filter(inv => inv.id !== id)
filterOut(invoices, id) == SelectSeq(invoices, LAMBDA inv : Get(inv, "id") # id)

\* v && v.toLowerCase().includes(term), for a property holding a string
fieldIncludes(v, term) == TruthyStr(v) /\ includes(toLowerCase(Chars[v]), term)

\* a filter callback that does not look at the client's email
searchMatch_noEmail(inv, term) ==
    LET basicMatch ==
            \/ fieldIncludes(Get(inv, "id"), term)
            \/ Has(inv, "client") /\ fieldIncludes(Get(inv["client"], "name"), term)
            \/ fieldIncludes(Get(inv, "status"), term)
    IN IF basicMatch THEN TRUE
       ELSE IF Has(inv, "items") /\ IsArray(inv["items"])
       THEN \E i \in 1..Len(inv["items"].elems) :
               fieldIncludes(Get(inv["items"].elems[i], "description"), term)
       ELSE FALSE

\* the callback that searchInvoices hands to filter
searchMatch(inv, term) ==
    LET basicMatch ==
            \/ fieldIncludes(Get(inv, "id"), term)
            \/ Has(inv, "client") /\ fieldIncludes(Get(inv["client"], "name"), term)
            \/ Has(inv, "client") /\ fieldIncludes(Get(inv["client"], "email"), term)
            \/ fieldIncludes(Get(inv, "status"), term)
    IN IF basicMatch THEN TRUE
       ELSE IF Has(inv, "items") /\ IsArray(inv["items"])
       THEN \E i \in 1..Len(inv["items"].elems) :
               fieldIncludes(Get(inv["items"].elems[i], "description"), term)
       ELSE FALSE

\* an input of the environment that the call did not consume
Unread == "unread"

\* ---------------------------------------------------------------- actions
\* `last' records the last call: its arguments, the inputs it consumed from
\* the environment, the path it took, what its call of saveData threw
\* (thrown, "none" when it returned), what the call itself returned or
\* threw, and the localStorage item before it (pre).

\* an init that writes the defaults over a document without a version
init_resetsLegacy(w) ==
    /\ loaded' = TRUE
    /\ UNCHANGED <<theme, uuidCount>>
    /\ IF ~_isStorageAvailable(store)
       THEN /\ store' = store
            /\ last' = [op |-> "init", path |-> "unavailable", w |-> Unread, pre |-> store]
       ELSE IF store.kind = "none"
       THEN /\ store' = saveDataStore(store, _getDefaults, w)
            /\ last' = [op |-> "init", path |-> "defaults", w |-> w,
                        thrown |-> saveDataThrows(w, StorageLength), pre |-> store]
       ELSE IF store.kind = "corrupt"
       THEN /\ store' = store
            /\ last' = [op |-> "init", path |-> "parse error", w |-> Unread, pre |-> store]
       ELSE IF ~TruthyStr(Get(store.doc, "version"))
       THEN /\ store' = saveDataStore(store, _getDefaults, w)
            /\ last' = [op |-> "init", path |-> "stamp version", w |-> w,
                        thrown |-> saveDataThrows(w, StorageLength), pre |-> store]
       ELSE /\ store' = store
            /\ last' = [op |-> "init", path |-> "nothing", w |-> Unread, pre |-> store]

\* Storage.init(), run when the page is loaded; setItem behaves as w
init(w) ==
    /\ loaded' = TRUE
    /\ UNCHANGED <<theme, uuidCount>>
    /\ IF ~_isStorageAvailable(store)
       THEN \* console.error('LocalStorage is not available'); return
            /\ store' = store
            /\ last' = [op |-> "init", path |-> "unavailable", w |-> Unread, pre |-> store]
       ELSE IF store.kind = "none"
       THEN \* _initializeDefaults(); a StorageError is caught and logged
            /\ store' = saveDataStore(store, _getDefaults, w)
            /\ last' = [op |-> "init", path |-> "defaults", w |-> w,
                        thrown |-> saveDataThrows(w, StorageLength), pre |-> store]
       ELSE IF store.kind = "corrupt"
       THEN \* JSON.parse throws, caught and logged
            /\ store' = store
            /\ last' = [op |-> "init", path |-> "parse error", w |-> Unread, pre |-> store]
       ELSE IF ~TruthyStr(Get(store.doc, "version"))
       THEN /\ store' = saveDataStore(store, Assign(store.doc, "version", APP_VERSION), w)
            /\ last' = [op |-> "init", path |-> "stamp version", w |-> w,
                        thrown |-> saveDataThrows(w, StorageLength), pre |-> store]
       ELSE /\ store' = store
            /\ last' = [op |-> "init", path |-> "nothing", w |-> Unread, pre |-> store]

\* Storage.saveInvoice(invoice) at time now, setItem behaving as w
saveInvoice(arg, now, w) ==
    /\ loaded
    /\ UNCHANGED <<theme, loaded>>
    /\ IF ~_validateInvoice(arg)
       THEN /\ UNCHANGED <<store, uuidCount>>
            /\ last' = [op |-> "saveInvoice", path |-> "invalid", arg |-> arg,
                        now |-> Unread, w |-> Unread, ret |-> Return(FALSE), pre |-> store]
       ELSE LET data == getData(store)
                invoice == arg.props
            IN IF ~Has(data, "invoices")
               THEN \* data.invoices.findIndex raises a TypeError: caught, not a StorageError
                    /\ UNCHANGED <<store, uuidCount>>
                    /\ last' = [op |-> "saveInvoice", path |-> "type error", arg |-> arg,
                                now |-> Unread, w |-> Unread,
                                ret |-> saveInvoiceResult("TypeError"), pre |-> store]
               ELSE LET found == findIndex(data["invoices"], Get(invoice, "id")) > 0
                        fresh == ~found /\ ~TruthyStr(Get(invoice, "id"))
                        uuid == IF fresh THEN randomUUID(uuidCount + 1) ELSE Undefined
                        thrown == saveDataThrows(w, StorageLength)
                    IN /\ found \/ Len(data["invoices"]) < MaxInvoices
                       /\ _isStorageAvailable(store) \/ w = "other"
                       /\ fresh => uuidCount < MaxUuid
                       /\ uuidCount' = IF fresh THEN uuidCount + 1 ELSE uuidCount
                       /\ store' = saveDataStore(store, upsert(data, invoice, now, uuid), w)
                       /\ last' = [op |-> "saveInvoice",
                                   path |-> IF found THEN "update" ELSE "create",
                                   arg |-> arg, now |-> now, w |-> w, thrown |-> thrown,
                                   ret |-> saveInvoiceResult(thrown), pre |-> store]

\* Storage.deleteInvoice(id), setItem behaving as w
deleteInvoice(id, w) ==
    /\ loaded
    /\ UNCHANGED <<theme, loaded, uuidCount>>
    /\ LET data == getData(store)
       IN IF ~Has(data, "invoices")
          THEN \* data.invoices.length raises a TypeError: caught
               /\ store' = store
               /\ last' = [op |-> "deleteInvoice", path |-> "type error", id |-> id,
                           w |-> Unread, ret |-> Return(FALSE), pre |-> store]
          ELSE LET remaining == filterOut(data["invoices"], id)
               IN IF Len(remaining) # Len(data["invoices"])
                  THEN \* a StorageError of saveData is caught
                       /\ store' = saveDataStore(store, Assign(data, "invoices", remaining), w)
                       /\ last' = [op |-> "deleteInvoice", path |-> "write", id |-> id,
                                   w |-> w, thrown |-> saveDataThrows(w, StorageLength),
                                   ret |-> Return(saveDataThrows(w, StorageLength) = "none"),
                                   pre |-> store]
                  ELSE /\ store' = store
                       /\ last' = [op |-> "deleteInvoice", path |-> "no match", id |-> id,
                                   w |-> Unread, ret |-> Return(FALSE), pre |-> store]

\* a getData that persists the defaults it falls back to
callGetData_persistsDefaults ==
    /\ loaded
    /\ UNCHANGED <<theme, uuidCount, loaded>>
    /\ store' = IF store.kind = "json" THEN store ELSE JSONstringify(_getDefaults)
    /\ last' = [op |-> "getData", ret |-> Return(getData(store)), pre |-> store]

\* a call of Storage.getData()
callGetData ==
    /\ loaded
    /\ UNCHANGED <<store, theme, uuidCount, loaded>>
    /\ last' = [op |-> "getData", ret |-> Return(getData(store)), pre |-> store]

\* a call of Storage.getInvoices()
callGetInvoices ==
    /\ loaded
    /\ UNCHANGED <<store, theme, uuidCount, loaded>>
    /\ last' = [op |-> "getInvoices", ret |-> Return(getInvoices(store)), pre |-> store]

\* Storage.searchInvoices(query); query is a string, or undefined
searchInvoices(query) ==
    /\ loaded
    /\ UNCHANGED <<store, theme, uuidCount, loaded>>
    /\ last' = [op |-> "searchInvoices", query |-> query,
                ret |-> IF ~TruthyStr(query) THEN Return(getInvoices(store))
                        ELSE LET term == toLowerCase(Chars[query])
                             IN Return(SelectSeq(getInvoices(store),
                                                 LAMBDA inv : searchMatch(inv, term))),
                pre |-> store]

\* ---------------------------------------------------------------- the page
\* the tabs in which the page is open
Tabs == {1, 2}

\* the view sections of the page, and those that UI.elements.views caches
ViewIds == {"dashboard", "editor", "settings", "print"}
CachedViews == {"dashboard", "editor", "print"}

DARK_CLASS == "dark"
LIGHT_CLASS == "light"

\* Model.formatCurrency(amount): the text of the amount in USD, rounded to
\* the minor unit
formatCurrency(amount) == [currency |-> "USD", minor |-> amount * 100]

\* the document of a tab once its scripts have run over a localStorage
\* without a theme item: every view section hidden, the list and the print
\* view not rendered, the totals at zero, no timer, the root in the dark
\* theme
InitialPage ==
    [views |-> [v \in ViewIds |-> [hidden |-> TRUE, active |-> FALSE]],
     rows |-> <<>>, emptyState |-> FALSE, revenue |-> formatCurrency(0), pending |-> formatCurrency(0),
     printView |-> <<>>, timers |-> <<>>, root |-> {DARK_CLASS}, themed |-> TRUE]

NoEvent == [handler |-> "none"]

\* UI.showView(viewId) on the document p: the cached views are hidden and
\* deactivated, then the section with id 'view-' + viewId is shown
showView(p, viewId) ==
    [p EXCEPT !.views =
        [v \in ViewIds |->
            IF v = viewId THEN [hidden |-> FALSE, active |-> TRUE]
            ELSE IF v \in CachedViews THEN [hidden |-> TRUE, active |-> FALSE]
            ELSE p.views[v]]]

\* new Date(text).getTime() for the dates of the model, which follow one
\* another in this order; 0 stands for the NaN of any other text, which
\* the comparison of sort takes as equal
DateValue == ("d1" :> 1) @@ ("d2" :> 2) @@ ("d3" :> 3) @@ ("t1" :> 4) @@ ("t2" :> 5)

getTime(d) == IF d \in DOMAIN DateValue THEN DateValue[d] ELSE 0

\* invoices.sort((a, b) => new Date(b.createdDate) - new Date(a.createdDate))
RECURSIVE sortByCreatedDate(_)
sortByCreatedDate(invoices) ==
    IF invoices = <<>> THEN <<>>
    ELSE LET n == Len(invoices)
             x == invoices[n]
             sorted == sortByCreatedDate(SubSeq(invoices, 1, n - 1))
             newer == SelectSeq(sorted, LAMBDA y :
                          getTime(Get(y, "createdDate")) >= getTime(Get(x, "createdDate")))
             older == SelectSeq(sorted, LAMBDA y :
                          getTime(Get(y, "createdDate")) < getTime(Get(x, "createdDate")))
         IN newer \o <<x>> \o older

\* the reduce of updateStats over the invoices whose status is one of
\* statuses: the sum of i.total || 0
RECURSIVE sumTotals(_, _)
sumTotals(invoices, statuses) ==
    IF invoices = <<>> THEN 0
    ELSE (IF Get(Head(invoices), "status") \in statuses /\ Has(Head(invoices), "total")
          THEN Head(invoices)["total"] ELSE 0)
         + sumTotals(Tail(invoices), statuses)

\* an updateStats that counts every invoice as revenue
updateStats_allPaid(p, invoices) ==
    [p EXCEPT !.revenue = formatCurrency(sumTotals(invoices, {"paid", "draft", "overdue"})),
              !.pending = formatCurrency(sumTotals(invoices, {"draft", "overdue"}))]

\* UI.updateStats(invoices)
updateStats(p, invoices) ==
    [p EXCEPT !.revenue = formatCurrency(sumTotals(invoices, {"paid"})),
              !.pending = formatCurrency(sumTotals(invoices, {"draft", "overdue"}))]

\* UI.renderDashboard(invoices): an empty list shows the empty state and
\* returns before the statistics are updated
renderDashboard(p, invoices) ==
    IF Len(invoices) = 0
    THEN [p EXCEPT !.rows = <<>>, !.emptyState = TRUE]
    ELSE LET sorted == sortByCreatedDate(invoices)
         IN [updateStats(p, sorted) EXCEPT
                !.rows = [i \in 1..Len(sorted) |-> Get(sorted[i], "id")],
                !.emptyState = FALSE]

\* App.loadDashboard() over the item st
loadDashboard(p, st) == showView(renderDashboard(p, getInvoices(st)), "dashboard")

\* applyTheme(theme) on the root element
applyTheme(p, th) ==
    [p EXCEPT !.root = IF th = "light" THEN (@ \ {DARK_CLASS}) \cup {LIGHT_CLASS}
                       ELSE (@ \ {LIGHT_CLASS}) \cup {DARK_CLASS}]

\* getStoredTheme(): the theme item, 'dark' when there is none
getStoredTheme(th) == IF th = "none" THEN "dark" ELSE th

\* init() of the theme script in tab t, run when the page is loaded: the
\* stored theme is applied and the button is wired; when getItem throws,
\* the script ends there
themeInit(t) ==
    /\ ~page[t].themed
    /\ page' = IF ~_isStorageAvailable(store) THEN page
               ELSE [page EXCEPT ![t] =
                        [applyTheme(@, getStoredTheme(theme)) EXCEPT !.themed = TRUE]]
    /\ UNCHANGED <<store, theme, uuidCount, loaded>>
    /\ last' = [op |-> "themeInit", tab |-> t, was |-> theme,
                thrown |-> ~_isStorageAvailable(store), pre |-> store]

\* a toggleTheme that writes under the key of the application data
toggleTheme_sharedKey(t, w) ==
    /\ loaded
    /\ _isStorageAvailable(store)
    /\ page[t].themed
    /\ store' = IF w = "ok" THEN Corrupt ELSE store
    /\ UNCHANGED <<theme, uuidCount, loaded, page>>
    /\ last' = [op |-> "toggleTheme", tab |-> t, w |-> w, was |-> theme, pre |-> store]

\* toggleTheme() in tab t, the click handler of the theme button; setItem
\* behaves as w, and the error it throws leaves the handler before
\* applyTheme is called
toggleTheme(t, w) ==
    /\ loaded
    /\ _isStorageAvailable(store)
    /\ page[t].themed
    /\ LET newTheme == IF getStoredTheme(theme) = "dark" THEN "light" ELSE "dark"
       IN /\ theme' = IF w # "ok" THEN theme ELSE newTheme
          /\ page' = IF w # "ok" THEN page
                     ELSE [page EXCEPT ![t] = applyTheme(@, newTheme)]
    /\ UNCHANGED <<store, uuidCount, loaded>>
    /\ last' = [op |-> "toggleTheme", tab |-> t, w |-> w, was |-> theme, pre |-> store]

\* --------------------------------------------------------- the dashboard
\* a call of UI.showView(viewId) in tab t
callShowView(t, viewId) ==
    /\ loaded
    /\ page' = [page EXCEPT ![t] = showView(@, viewId)]
    /\ event' = [handler |-> "showView", tab |-> t, view |-> viewId]
    /\ UNCHANGED <<store, theme, uuidCount, loaded, last, form, sessions>>

\* the click on the dashboard button of the navigation in tab t
navDashboard(t) ==
    /\ loaded
    /\ page' = [page EXCEPT ![t] = loadDashboard(@, store)]
    /\ event' = [handler |-> "loadDashboard", tab |-> t, rendered |-> getInvoices(store)]
    /\ UNCHANGED <<store, theme, uuidCount, loaded, last, form, sessions>>

\* App.handleSearch(query) in tab t, the input handler of the search box
handleSearch(t, query) ==
    /\ searchInvoices(query)
    /\ page' = [page EXCEPT ![t] = renderDashboard(@, last'.ret.value)]
    /\ event' = [handler |-> "handleSearch", tab |-> t, rendered |-> last'.ret.value]
    /\ UNCHANGED <<form, sessions>>

\* a handleDelete that does not ask
handleDelete_noConfirm(t, id, confirmed, w) ==
    /\ deleteInvoice(id, w)
    /\ page' = IF last'.ret = Return(TRUE)
               THEN [page EXCEPT ![t] = loadDashboard(@, store')]
               ELSE page
    /\ event' = [handler |-> "handleDelete", tab |-> t, id |-> id,
                 confirmed |-> confirmed, called |-> TRUE,
                 ret |-> last'.ret, rendered |-> getInvoices(store'),
                 preStore |-> store, prePage |-> page[t]]
    /\ UNCHANGED <<form, sessions>>

\* App.handleDelete(id) in tab t, for the id of a delete button; the user
\* answers the confirm dialog with confirmed, setItem behaves as w
handleDelete(t, id, confirmed, w) ==
    IF confirmed
    THEN /\ deleteInvoice(id, w)
         /\ page' = IF last'.ret = Return(TRUE)
                    THEN [page EXCEPT ![t] = loadDashboard(@, store')]
                    ELSE \* alert('Failed to delete invoice.')
                         page
         /\ event' = [handler |-> "handleDelete", tab |-> t, id |-> id,
                      confirmed |-> TRUE, called |-> TRUE,
                      ret |-> last'.ret, rendered |-> getInvoices(store'),
                      preStore |-> store, prePage |-> page[t]]
         /\ UNCHANGED <<form, sessions>>
    ELSE /\ loaded
         /\ event' = [handler |-> "handleDelete", tab |-> t, id |-> id,
                      confirmed |-> FALSE, called |-> FALSE,
                      ret |-> Return(FALSE), rendered |-> <<>>,
                      preStore |-> store, prePage |-> page[t]]
         /\ UNCHANGED <<store, theme, uuidCount, loaded, last, form, sessions, page>>

\* ------------------------------------------------------------ the editor
\* the texts of the number inputs that parseFloat reads as a number; it
\* gives NaN for every other text
Numbers == ("0" :> 0) @@ ("1" :> 1) @@ ("2" :> 2) @@ ("10" :> 10)

\* parseFloat(text) || 0
parseFloatOr0(text) == IF text \in DOMAIN Numbers THEN Numbers[text] ELSE 0

\* the text an input shows for a number assigned to its value
NumberText(n) == CHOOSE text \in DOMAIN Numbers : Numbers[text] = n

\* the editor form before anything is loaded or typed into it
EmptyForm ==
    [id |-> "", clientName |-> "", clientEmail |-> "", clientAddress |-> "",
     date |-> "", dueDate |-> "", status |-> "draft", taxRate |-> "", notes |-> "",
     rows |-> <<>>]

\* no tab has submitted its form yet
NoSession == [latest |-> 0, submitted |-> EmptyForm, saved |-> [t \in Tabs |-> <<>>]]

RECURSIVE reduceAmounts(_)
reduceAmounts(items) ==
    IF items = <<>> THEN 0 ELSE Head(items)["amount"] + reduceAmounts(Tail(items))

\* Model.calculateInvoice(invoice): every item's amount, subtotal, taxAmount
\* and total (the inputs are chosen so that the division is exact)
calculateInvoice(invoice) ==
    LET elems == invoice["items"].elems
        items == [i \in 1..Len(elems) |->
                     Assign(elems[i], "amount", elems[i]["quantity"] * elems[i]["rate"])]
        subtotal == reduceAmounts(items)
        taxAmount == (subtotal * invoice["taxRate"]) \div 100
    IN Assign(Assign(Assign(Assign(invoice, "items", ArrayOf(items)),
                            "subtotal", subtotal),
                     "taxAmount", taxAmount),
              "total", subtotal + taxAmount)

\* the invoice that getFormData builds from the fields of the form
formInvoice(f) ==
    [id |-> f.id,
     createdDate |-> f.date,
     dueDate |-> f.dueDate,
     status |-> f.status,
     client |-> [name |-> f.clientName, email |-> f.clientEmail,
                 address |-> f.clientAddress],
     items |-> ArrayOf([i \in 1..Len(f.rows) |->
                           [description |-> f.rows[i].desc,
                            quantity |-> parseFloatOr0(f.rows[i].qty),
                            rate |-> parseFloatOr0(f.rows[i].rate),
                            amount |-> 0]]),
     taxRate |-> parseFloatOr0(f.taxRate),
     notes |-> f.notes]

\* a getFormData that returns the invoice it built
getFormData_uncalculated(f) == formInvoice(f)

\* UI.getFormData()
getFormData(f) == calculateInvoice(formInvoice(f))

\* v || '' for a property holding a string
OrEmpty(v) == IF TruthyStr(v) THEN v ELSE ""

\* UI.renderEditor(invoice): the form filled from a stored invoice
renderEditor(invoice) ==
    [id |-> OrEmpty(Get(invoice, "id")),
     clientName |-> OrEmpty(Get(invoice["client"], "name")),
     clientEmail |-> OrEmpty(Get(invoice["client"], "email")),
     clientAddress |-> OrEmpty(Get(invoice["client"], "address")),
     date |-> OrEmpty(Get(invoice, "createdDate")),
     dueDate |-> OrEmpty(Get(invoice, "dueDate")),
     status |-> IF TruthyStr(Get(invoice, "status")) THEN invoice["status"] ELSE "draft",
     taxRate |-> NumberText(invoice["taxRate"]),
     notes |-> OrEmpty(Get(invoice, "notes")),
     rows |-> [i \in 1..Len(invoice["items"].elems) |->
                  [desc |-> invoice["items"].elems[i]["description"],
                   qty |-> NumberText(invoice["items"].elems[i]["quantity"]),
                   rate |-> NumberText(invoice["items"].elems[i]["rate"])]]]

\* App.loadEditor(id) in tab t, for the id of an edit button
loadEditor(t, id) ==
    /\ loaded
    /\ UNCHANGED <<store, theme, uuidCount, loaded>>
    /\ LET invoice == getInvoice(store, id)
       IN /\ form' = IF invoice = <<>> THEN form
                     ELSE [form EXCEPT ![t] = renderEditor(invoice[1])]
          /\ page' = IF invoice = <<>>
                     THEN \* alert('Invoice not found'); this.loadDashboard()
                          [page EXCEPT ![t] = loadDashboard(@, store)]
                     ELSE [page EXCEPT ![t] = showView(@, "editor")]
          /\ last' = [op |-> "getInvoice", id |-> id, ret |-> Return(invoice), pre |-> store]
    /\ event' = [handler |-> "loadEditor", tab |-> t, id |-> id]
    /\ UNCHANGED sessions

\* the user of tab t types into the fields of the form and adds or
\* removes rows; the id field is hidden
fillForm(t, typed) ==
    /\ loaded
    /\ form' = [form EXCEPT ![t] = Assign(typed, "id", form[t].id)]
    /\ UNCHANGED <<store, theme, uuidCount, loaded, last, sessions, page, event>>

\* App.handleSave() in tab t, the submit handler of the form
handleSave(t, now, w) ==
    /\ saveInvoice(Object(getFormData(form[t])), now, w)
    /\ form' = form
    /\ sessions' = [latest |-> t,
                    submitted |-> form[t],
                    saved |-> IF last'.ret = Return(TRUE)
                              THEN [sessions.saved EXCEPT ![t] = <<last'.arg.props>>]
                              ELSE sessions.saved]
    /\ page' = IF last'.ret = Return(TRUE)
               THEN [page EXCEPT ![t] = loadDashboard(@, store')]
               ELSE \* alert(...)
                    page
    /\ event' = [handler |-> "handleSave", tab |-> t]

\* --------------------------------------------------------------- printing
\* UI.renderPrintView(invoice) on the document p: the print view holds the
\* invoice; invoice.status.toUpperCase() throws for an invoice without a
\* status, before anything is written
renderPrintView(p, invoice) ==
    IF Get(invoice, "status") = Undefined THEN p
    ELSE [p EXCEPT !.printView = <<invoice>>]

\* App.handlePrint(id) in tab t, for the id of a print button: the invoice
\* is rendered into the print view and a timer is set that prints; each
\* timer is kept with the invoice it was set for
handlePrint(t, id) ==
    /\ loaded
    /\ LET invoice == getInvoice(store, id)
           renders == invoice # <<>> /\ Get(invoice[1], "status") # Undefined
       IN /\ renders => Len(page[t].timers) < MaxTimers
          /\ page' = IF ~renders THEN page
                     ELSE [page EXCEPT ![t] =
                              [renderPrintView(@, invoice[1]) EXCEPT
                                  !.timers = Append(@, invoice[1])]]
          /\ last' = [op |-> "getInvoice", id |-> id, ret |-> Return(invoice), pre |-> store]
          /\ event' = [handler |-> "handlePrint", tab |-> t, id |-> id,
                       found |-> invoice # <<>>, printed |-> <<>>, prePage |-> page[t]]
    /\ UNCHANGED <<store, theme, uuidCount, loaded, form, sessions>>

\* the click on the print preview button of the editor in tab t: the form
\* is rendered into the print view and printed at once
printPreview(t) ==
    /\ loaded
    /\ page' = [page EXCEPT ![t] = renderPrintView(@, getFormData(form[t]))]
    /\ event' = [handler |-> "printPreview", tab |-> t,
                 printed |-> page'[t].printView]
    /\ UNCHANGED <<store, theme, uuidCount, loaded, last, form, sessions>>

\* the timer that handlePrint set first fires in tab t: window.print()
\* prints the print view as it is then
printTimer(t) ==
    /\ page[t].timers # <<>>
    /\ page' = [page EXCEPT ![t].timers = Tail(@)]
    /\ event' = [handler |-> "printTimer", tab |-> t,
                 requested |-> Head(page[t].timers),
                 printed |-> page[t].printView]
    /\ UNCHANGED <<store, theme, uuidCount, loaded, last, form, sessions>>

\* ------------------------------------------------------------------ inputs
Times == {"t1", "t2"}
WriteOutcomes == {"ok", "quota", "other"}

EmptyObject == [f \in {} |-> Undefined]

Acme == [name |-> "Acme", email |-> "billing@acme.com"]
Globex == [name |-> "Globex"]
Hosting == [description |-> "Hosting", quantity |-> 1, rate |-> 10, amount |-> 10]
Design == [description |-> "Design", quantity |-> 2, rate |-> 10, amount |-> 20]

\* an invoice with derived fields as Model.calculateInvoice would set them
Calculated ==
    [client |-> Acme, items |-> ArrayOf(<<Hosting>>), notes |-> "n1",
     taxRate |-> 10, subtotal |-> 10, taxAmount |-> 1, total |-> 11]
\* an invoice without notes whose derived fields were set by hand
HandSet ==
    [client |-> Globex, items |-> ArrayOf(<<Hosting, Design>>),
     taxRate |-> 10, subtotal |-> 99, taxAmount |-> 0, total |-> 99]
\* an invoice whose notes property holds undefined
NotesUndefined == ("notes" :> Undefined) @@ Calculated

KnownIds(n) == {"a"} \cup {randomUUID(k) : k \in 1..n}

\* the invoices a caller builds: without an id, or with a known one
ValidInvoices(n) ==
    {p @@ k : k \in {Calculated, HandSet},
              p \in {EmptyObject} \cup {[id |-> i] : i \in KnownIds(n)}}

\* an invoice read with getInvoices and handed back with other contents
Resaved(st) ==
    {HandSet @@ getInvoices(st)[i] : i \in 1..Len(getInvoices(st))}

\* further invoices: a createdDate given, empty id and createdDate, notes
\* holding undefined, and the stored invoices handed back
StampedInvoices(st, n) ==
    ValidInvoices(n)
    \cup {p @@ k : k \in {Calculated, HandSet},
                   p \in {[id |-> "a", createdDate |-> "d1"],
                          [id |-> "", createdDate |-> ""]}}
    \cup {[id |-> "a"] @@ NotesUndefined}
    \cup Resaved(st)

InvalidArgs ==
    LET base == [id |-> "a"] @@ Calculated
        Without(f) == [g \in DOMAIN base \ {f} |-> base[g]]
    IN {[type |-> "null"], [type |-> "string"],
        Object(Without("client")),
        Object(("client" :> [name |-> "", email |-> "x@y"]) @@ base),
        Object(("client" :> [email |-> "x@y"]) @@ base),
        Object(Without("items")),
        Object(("items" :> [kind |-> "object"]) @@ base),
        Object(("items" :> ArrayOf(<<>>)) @@ base)}

ValidArgs(n) == {Object(p) : p \in ValidInvoices(n)}

StampedArgs(st, n) == {Object(p) : p \in StampedInvoices(st, n)}

DeleteIds(n) == KnownIds(n) \cup {"zz"}

InitialStores ==
    {NoItem, Corrupt,
     [kind |-> "json", doc |-> [invoices |-> <<>>, settings |-> _getDefaults.settings]],
     [kind |-> "json", doc |-> [settings |-> _getDefaults.settings]]}

\* ----------------------------------------------------------- specification
Init ==
    /\ store \in InitialStores
    /\ theme = "none"
    /\ uuidCount = 0
    /\ loaded = FALSE
    /\ last = [op |-> "none"]
    /\ form = [t \in Tabs |-> EmptyForm]
    /\ sessions = NoSession
    /\ page = [t \in Tabs |-> InitialPage]
    /\ event = NoEvent

\* the calls the page can make: every argument, every outcome of setItem,
\* one instant
Next ==
    \/ \E w \in WriteOutcomes : init(w) /\ UNCHANGED ui
    \/ \E arg \in InvalidArgs : saveInvoice(arg, Unread, Unread) /\ UNCHANGED ui
    \/ \E arg \in ValidArgs(uuidCount), w \in WriteOutcomes : saveInvoice(arg, "t1", w) /\ UNCHANGED ui
    \/ \E id \in DeleteIds(uuidCount), w \in WriteOutcomes : deleteInvoice(id, w) /\ UNCHANGED ui

Spec == Init /\ [][Next]_vars

\* the calls with more valid invoices, two instants and writes that
\* succeed, for a document of at most MaxStamped invoices
NextStamps ==
    \/ init("ok") /\ UNCHANGED ui
    \/ \E arg \in StampedArgs(store, uuidCount), now \in Times :
          /\ saveInvoice(arg, now, "ok")
          /\ Len(getInvoices(store')) <= MaxStamped
          /\ UNCHANGED ui
    \/ \E id \in DeleteIds(uuidCount) : deleteInvoice(id, "ok") /\ UNCHANGED ui

SpecStamps == Init /\ [][NextStamps]_vars

\* a session of the page over every kind of localStorage, an unavailable
\* one included: the reads, the theme button and a few writes
\* a document written before documents carried a version
Legacy ==
    [kind |-> "json",
     doc |-> [invoices |-> <<[id |-> "a", createdDate |-> "t1"] @@ Calculated>>,
              settings |-> _getDefaults.settings]]

\* a document whose settings the user has changed
Customised ==
    [kind |-> "json",
     doc |-> [version |-> APP_VERSION,
              invoices |-> <<[id |-> "a", createdDate |-> "t1"] @@ HandSet>>,
              settings |-> [currency |-> "EUR", defaultTaxRate |-> 20, logo |-> "png"]]]

SessionStores == InitialStores \cup {Unavailable, Legacy, Customised}

SessionArgs == {Object(Calculated), Object([id |-> "a"] @@ HandSet)}

InitSession ==
    /\ store \in SessionStores
    /\ theme = "none"
    /\ uuidCount = 0
    /\ loaded = FALSE
    /\ last = [op |-> "none"]
    /\ form = [t \in Tabs |-> EmptyForm]
    /\ sessions = NoSession
    /\ page = [t \in Tabs |-> InitialPage]
    /\ event = NoEvent

NextSession ==
    \/ \E w \in WriteOutcomes : init(w) /\ UNCHANGED ui
    \/ callGetData /\ UNCHANGED ui
    \/ callGetInvoices /\ UNCHANGED ui
    \/ searchInvoices("a") /\ UNCHANGED ui
    \/ \E w \in WriteOutcomes : toggleTheme(1, w) /\ UNCHANGED <<form, sessions, event>>
    \/ \E arg \in SessionArgs, w \in WriteOutcomes : saveInvoice(arg, "t1", w) /\ UNCHANGED ui
    \/ \E id \in DeleteIds(uuidCount), w \in WriteOutcomes : deleteInvoice(id, w) /\ UNCHANGED ui

SpecSession == InitSession /\ [][NextSession]_vars

\* the dashboard in two tabs over documents of up to two invoices; the
\* delete buttons are those of the rows that the tab shows
Listed ==
    <<[id |-> "a", createdDate |-> "t1", status |-> "draft"] @@ Calculated,
      [id |-> "B2", createdDate |-> "t2", status |-> "paid"] @@ Calculated>>

PageStores ==
    {NoItem,
     [kind |-> "json", doc |-> Assign(_getDefaults, "invoices", Listed)]}

PageQueries == {"a", "xyz"}

InitPage ==
    /\ store \in PageStores
    /\ theme = "none"
    /\ uuidCount = 0
    /\ loaded = FALSE
    /\ last = [op |-> "none"]
    /\ form = [t \in Tabs |-> EmptyForm]
    /\ sessions = NoSession
    /\ page = [t \in Tabs |-> InitialPage]
    /\ event = NoEvent

NextPage ==
    \/ init("ok") /\ UNCHANGED ui
    \/ \E viewId \in ViewIds : callShowView(1, viewId)
    \/ \E t \in Tabs : navDashboard(t)
    \/ \E query \in PageQueries : handleSearch(1, query)
    \/ \E t \in Tabs, confirmed \in BOOLEAN, w \in WriteOutcomes :
          \E i \in 1..Len(page[t].rows) : handleDelete(t, page[t].rows[i], confirmed, w)

SpecPage == InitPage /\ [][NextPage]_vars

\* printing from the dashboard and from the editor of tab 1, over a
\* document of three invoices, one of them without a status; the print
\* buttons are those of the rows that the tab shows, which another tab
\* makes stale by deleting
PrintStores ==
    {[kind |-> "json",
      doc |-> Assign(_getDefaults, "invoices",
                     Listed \o <<[id |-> "u1", createdDate |-> "t1"] @@ HandSet>>)]}

InitPrint ==
    /\ store \in PrintStores
    /\ theme = "none"
    /\ uuidCount = 0
    /\ loaded = FALSE
    /\ last = [op |-> "none"]
    /\ form = [t \in Tabs |-> EmptyForm]
    /\ sessions = NoSession
    /\ page = [t \in Tabs |-> InitialPage]
    /\ event = NoEvent

NextPrint ==
    \/ init("ok") /\ UNCHANGED ui
    \/ \E t \in Tabs : navDashboard(t)
    \/ \E i \in 1..Len(page[1].rows) : handlePrint(1, page[1].rows[i])
    \/ \E id \in KnownIds(0) : loadEditor(1, id)
    \/ printPreview(1)
    \/ printTimer(1)
    \/ \E t \in Tabs : \E i \in 1..Len(page[t].rows) :
          handleDelete(t, page[t].rows[i], TRUE, "ok")

SpecPrint == InitPrint /\ [][NextPrint]_vars

\* the theme script in two tabs: the documents start with any theme
\* classes on the root, over a localStorage with or without a theme item
InitTheme ==
    /\ store \in {NoItem, Unavailable}
    /\ theme \in {"none", "dark", "light"}
    /\ uuidCount = 0
    /\ loaded = FALSE
    /\ last = [op |-> "none"]
    /\ form = [t \in Tabs |-> EmptyForm]
    /\ sessions = NoSession
    /\ \E r \in [Tabs -> SUBSET {DARK_CLASS, LIGHT_CLASS}] :
          page = [t \in Tabs |-> [InitialPage EXCEPT !.root = r[t], !.themed = FALSE]]
    /\ event = NoEvent

NextTheme ==
    \/ init("ok") /\ UNCHANGED ui
    \/ \E t \in Tabs : themeInit(t) /\ UNCHANGED <<form, sessions, event>>
    \/ \E t \in Tabs, w \in WriteOutcomes : toggleTheme(t, w) /\ UNCHANGED <<form, sessions, event>>

SpecTheme == InitTheme /\ [][NextTheme]_vars

\* searches over documents of up to three invoices that differ in what
\* they hold: with and without email and status, one or two line items
Searched ==
    <<[id |-> "a", createdDate |-> "t1", status |-> "draft"] @@ Calculated,
      [id |-> "B2", createdDate |-> "t1", status |-> "paid"] @@ HandSet,
      [id |-> "u1", createdDate |-> "t1", status |-> ""] @@ HandSet>>

SearchStores ==
    {NoItem,
     [kind |-> "json", doc |-> Assign(_getDefaults, "invoices", Searched)],
     [kind |-> "json",
      doc |-> Assign(_getDefaults, "invoices", <<Searched[2], Searched[3], Searched[1]>>)]}

Queries == {Undefined, "", "a", "ACME", "hosting", "b2", "Paid", "@ACME", "sign", "xyz"}

SearchArgs == {Object([id |-> "B2"] @@ Calculated), Object([id |-> "a"] @@ HandSet)}

InitSearch ==
    /\ store \in SearchStores
    /\ theme = "none"
    /\ uuidCount = 1
    /\ loaded = FALSE
    /\ last = [op |-> "none"]
    /\ form = [t \in Tabs |-> EmptyForm]
    /\ sessions = NoSession
    /\ page = [t \in Tabs |-> InitialPage]
    /\ event = NoEvent

NextSearch ==
    \/ init("ok") /\ UNCHANGED ui
    \/ \E query \in Queries : searchInvoices(query) /\ UNCHANGED ui
    \/ \E arg \in SearchArgs : saveInvoice(arg, "t1", "ok") /\ UNCHANGED ui
    \/ \E id \in {"a", "B2", "u1"} : deleteInvoice(id, "ok") /\ UNCHANGED ui

SpecSearch == InitSearch /\ [][NextSearch]_vars

\* what the user types into the form: two fillings that pass validation
\* (the empty form does not: no client name, no rows)
Typed ==
    {[id |-> "", clientName |-> "Acme", clientEmail |-> "billing@acme.com",
      clientAddress |-> "", date |-> "d1", dueDate |-> "", status |-> "draft",
      taxRate |-> "10", notes |-> "n1",
      rows |-> <<[desc |-> "Hosting", qty |-> "2", rate |-> "10"]>>],
     [id |-> "", clientName |-> "Globex", clientEmail |-> "",
      clientAddress |-> "", date |-> "d2", dueDate |-> "d3", status |-> "paid",
      taxRate |-> "", notes |-> "",
      rows |-> <<[desc |-> "Hosting", qty |-> "1", rate |-> "10"],
                 [desc |-> "Design", qty |-> "", rate |-> "10"]>>]}

TabStores ==
    {NoItem,
     [kind |-> "json",
      doc |-> Assign(_getDefaults, "invoices", <<[id |-> "a", createdDate |-> "t1"] @@ Calculated>>)]}

InitTabs ==
    /\ store \in TabStores
    /\ theme = "none"
    /\ uuidCount = 0
    /\ loaded = FALSE
    /\ last = [op |-> "none"]
    /\ form = [t \in Tabs |-> EmptyForm]
    /\ sessions = NoSession
    /\ page = [t \in Tabs |-> InitialPage]
    /\ event = NoEvent

\* the page open in two tabs that edit the stored invoices: each step is
\* one handler of one tab, run to its end; a tab submits the form of an
\* invoice it has loaded
NextTabs ==
    \/ init("ok") /\ UNCHANGED ui
    \/ \E t \in Tabs, id \in KnownIds(uuidCount) : loadEditor(t, id)
    \/ \E t \in Tabs, typed \in Typed : fillForm(t, typed)
    \/ \E t \in Tabs, w \in {"ok", "other"} :
          /\ form[t].id # ""
          /\ handleSave(t, "t2", w)

SpecTabs == InitTabs /\ [][NextTabs]_vars

\* the editor of one tab: any form is submitted, of a new invoice or of a
\* loaded one, under every outcome of setItem
NextEditor ==
    \/ init("ok") /\ UNCHANGED ui
    \/ \E id \in KnownIds(uuidCount) : loadEditor(1, id)
    \/ \E typed \in Typed : fillForm(1, typed)
    \/ \E w \in WriteOutcomes : handleSave(1, "t2", w)

SpecEditor == InitTabs /\ [][NextEditor]_vars

\* ------------------------------------------------------------------ claims
\* the invoices getInvoices returned before the last call, and returns now
Before == getInvoices(last.pre)
After == getInvoices(store)

\* the invoice handed to the last saveInvoice
Incoming == last.arg.props

IdsOf(invoices) == {Get(invoices[i], "id") : i \in 1..Len(invoices)}

SavedOk == last.op = "saveInvoice" /\ last.ret = Return(TRUE)

\* the argument fails validation as the specification words it
FailsValidation(arg) ==
    \/ arg.type # "object"
    \/ /\ arg.type = "object"
       /\ \/ ~Has(arg.props, "client")
          \/ Has(arg.props, "client") /\ Get(arg.props["client"], "name") \in {"", Undefined}
          \/ ~Has(arg.props, "items")
          \/ Has(arg.props, "items") /\ arg.props["items"].kind # "array"
          \/ /\ Has(arg.props, "items")
             /\ arg.props["items"].kind = "array"
             /\ arg.props["items"].elems = <<>>

C2_UpsertById ==
    SavedOk =>
        LET id == Get(Incoming, "id")
        IN IF id \in IdsOf(Before)
           THEN /\ Len(After) = Len(Before)
                /\ \A i \in 1..Len(Before) :
                      IF Get(Before[i], "id") = id
                      THEN /\ Get(After[i], "id") = id
                           /\ After[i]["client"] = Incoming["client"]
                           /\ After[i]["items"] = Incoming["items"]
                      ELSE After[i] = Before[i]
           ELSE /\ Len(After) = Len(Before) + 1
                /\ \A i \in 1..Len(Before) : After[i] = Before[i]
                /\ After[Len(After)]["client"] = Incoming["client"]
                /\ After[Len(After)]["items"] = Incoming["items"]

\* the first of two stored invoices was replaced by different contents
C2_Witness ==
    /\ SavedOk
    /\ Len(Before) = 2
    /\ Get(Incoming, "id") = Get(Before[1], "id")
    /\ After[1] # Before[1]
    /\ After[2] = Before[2]

\* the position of the stored invoice that has the incoming invoice's id
UpdatedAt == CHOOSE i \in 1..Len(Before) : Get(Before[i], "id") = Get(Incoming, "id")

UpdatedOk == SavedOk /\ Get(Incoming, "id") \in IdsOf(Before)
CreatedOk == SavedOk /\ Get(Incoming, "id") \notin IdsOf(Before)

\* record r holds the value that property f has on object obj (a property
\* holding undefined is not serialised)
HoldsValueOf(r, obj, f) ==
    IF f \in StringProps /\ obj[f] = Undefined
    THEN ~Has(r, f)
    ELSE Has(r, f) /\ r[f] = obj[f]

\* C3: when saveInvoice updates an existing invoice, the stored record holds
\* the incoming value of every field the incoming invoice carries, keeps the
\* previous value of every field it does not carry, and has updatedAt set to
\* the time of the update (updatedAt is the stamped field: the stamp, not the
\* incoming or previous updatedAt, is what the record holds).
C3_UpdateMerges ==
    UpdatedOk =>
        LET old == Before[UpdatedAt]
            r == After[UpdatedAt]
        IN /\ \A f \in DOMAIN Incoming \ {"updatedAt"} : HoldsValueOf(r, Incoming, f)
           /\ \A f \in DOMAIN old \ (DOMAIN Incoming \cup {"updatedAt"}) :
                 HoldsValueOf(r, old, f)
           /\ DOMAIN r \subseteq DOMAIN Incoming \cup DOMAIN old \cup {"updatedAt"}
           /\ Get(r, "updatedAt") = last.now

\* an invoice with notes, stamped at t1, was updated at t2 by an invoice
\* without notes and without createdDate
C3_Witness ==
    /\ UpdatedOk
    /\ ~Has(Incoming, "notes")
    /\ ~Has(Incoming, "createdDate")
    /\ Get(Before[UpdatedAt], "notes") = "n1"
    /\ Get(Before[UpdatedAt], "updatedAt") = "t1"
    /\ last.now = "t2"
    /\ Before[UpdatedAt]["client"] # Incoming["client"]

\* C4: when saveInvoice creates an invoice, the stored record has a
\* non-empty id and a non-empty createdDate: an absent or empty id is
\* replaced by a freshly generated one, an absent or empty createdDate is
\* stamped with the current time, and a supplied id or createdDate is kept.
C4_CreateStamps ==
    CreatedOk =>
        LET r == After[Len(After)]
            id == Get(Incoming, "id")
            createdDate == Get(Incoming, "createdDate")
        IN /\ Get(r, "id") \notin {Undefined, ""}
           /\ Get(r, "createdDate") \notin {Undefined, ""}
           /\ IF id \in {Undefined, ""}
              THEN /\ Get(r, "id") \in {UuidNames[k] : k \in 1..Len(UuidNames)}
                   /\ Get(r, "id") \notin IdsOf(Before)
              ELSE Get(r, "id") = id
           /\ IF createdDate \in {Undefined, ""}
              THEN Get(r, "createdDate") = last.now
              ELSE Get(r, "createdDate") = createdDate

\* an invoice with empty id and empty createdDate was created at t2 next to
\* a stored one
C4_Witness ==
    /\ CreatedOk
    /\ Has(Incoming, "id") /\ Incoming["id"] = ""
    /\ Has(Incoming, "createdDate") /\ Incoming["createdDate"] = ""
    /\ last.now = "t2"
    /\ Get(After[Len(After)], "createdDate") = "t2"

\* C5: after any sequence of saveInvoice and deleteInvoice calls from a
\* document without invoices, no two stored invoices share an id, and an
\* update leaves the id of the entry it replaces unchanged.
C5_IdsUniqueAndKept ==
    /\ \A i, j \in 1..Len(After) :
          Get(After[i], "id") = Get(After[j], "id") => i = j
    /\ UpdatedOk =>
          \A i \in 1..Len(Before) : Get(After[i], "id") = Get(Before[i], "id")

\* invoice "a" was saved again while "a" and a generated id are stored
C5_Witness ==
    /\ UpdatedOk
    /\ Get(Incoming, "id") = "a"
    /\ IdsOf(After) = {"a", UuidNames[1]}

RECURSIVE SumAmounts(_)
SumAmounts(elems) ==
    IF elems = <<>> THEN 0 ELSE Head(elems).amount + SumAmounts(Tail(elems))

\* C6: every invoice retrievable from the Repository has subtotal = sum of
\* its items' amounts, taxAmount = subtotal * taxRate / 100 and
\* total = subtotal + taxAmount, whatever derived values the caller passed.
C6_DerivedFieldsHold ==
    \A i \in 1..Len(After) :
        LET inv == After[i]
        IN /\ inv["subtotal"] = SumAmounts(inv["items"].elems)
           /\ inv["taxAmount"] * 100 = inv["subtotal"] * inv["taxRate"]
           /\ inv["total"] = inv["subtotal"] + inv["taxAmount"]

\* the id the saved invoice has after the call (saveInvoice assigns the
\* generated id to its argument)
SavedId ==
    IF Get(Incoming, "id") \in {Undefined, ""} THEN UuidNames[uuidCount]
    ELSE Get(Incoming, "id")

\* C7 as stated: after saveInvoice(inv) returned true, getInvoice(inv.id)
\* returns a record whose client, items and notes equal those of inv, for a
\* new invoice and for one that replaced an existing invoice.
C7_RoundTripAsStated ==
    SavedOk =>
        LET got == getInvoice(store, SavedId)
        IN /\ got # <<>>
           /\ got[1]["client"] = Incoming["client"]
           /\ got[1]["items"] = Incoming["items"]
           /\ Get(got[1], "notes") = Get(Incoming, "notes")

\* C7 amended: after saveInvoice(inv) returned true, getInvoice(inv.id)
\* returns a record whose client and items equal those of inv; its notes
\* equal those of inv when inv was new or carries a notes property, and are
\* the notes stored before when inv replaced an invoice and carries none.
C7_RoundTrip ==
    SavedOk =>
        LET got == getInvoice(store, SavedId)
        IN /\ got # <<>>
           /\ got[1]["client"] = Incoming["client"]
           /\ got[1]["items"] = Incoming["items"]
           /\ Get(got[1], "notes") =
                 IF Has(Incoming, "notes") \/ Get(Incoming, "id") \notin IdsOf(Before)
                 THEN Get(Incoming, "notes")
                 ELSE Get(Before[UpdatedAt], "notes")

\* an invoice without a notes property replaced one stored with notes
C7_Witness ==
    /\ UpdatedOk
    /\ ~Has(Incoming, "notes")
    /\ Get(Before[UpdatedAt], "notes") = "n1"
    /\ Get(getInvoice(store, SavedId)[1], "notes") = "n1"

\* C8: deleteInvoice(id) returns true exactly when an invoice with that id
\* was stored and has been removed; then the count decreases by one and the
\* other invoices keep their order; for an id that matches nothing it
\* returns false, writes nothing and leaves the document unchanged.
C8_Delete ==
    last.op = "deleteInvoice" =>
        /\ (last.ret = Return(TRUE))
              <=> (last.id \in IdsOf(Before) /\ last.id \notin IdsOf(After))
        /\ last.ret = Return(TRUE) =>
              \E k \in 1..Len(Before) :
                 /\ Get(Before[k], "id") = last.id
                 /\ After = [j \in 1..(Len(Before) - 1) |->
                                IF j < k THEN Before[j] ELSE Before[j + 1]]
        /\ last.id \notin IdsOf(Before) =>
              /\ last.ret = Return(FALSE)
              /\ last.w = Unread
              /\ store = last.pre

\* the second of two stored invoices was deleted
C8_Witness ==
    /\ last.op = "deleteInvoice"
    /\ last.ret = Return(TRUE)
    /\ Len(Before) = 2
    /\ Get(Before[2], "id") = last.id
    /\ After = <<Before[1]>>

\* setItem rejected the write of the last call
WriteRejected == last.w \in {"quota", "other"}

\* C9: when the store rejects the write during saveInvoice of a valid
\* invoice, the caller gets a raised QuotaExceeded or WriteError storage
\* error and never a false return value.
C9_WriteFailurePropagates ==
    (last.op = "saveInvoice" /\ WriteRejected)
        => (last.ret.kind = "throw" /\ last.ret.code \in {QUOTA_EXCEEDED, WRITE_ERROR})

\* an update of a stored invoice met a full store
C9_Witness ==
    /\ last.op = "saveInvoice"
    /\ last.path = "update"
    /\ last.w = "quota"
    /\ last.ret = Throw(QUOTA_EXCEEDED)

\* C10: if the store rejects the write during saveInvoice (create or
\* update), the persisted document is the same after the call as before it,
\* and getInvoices returns the same invoices.
C10_NoPartialWrite ==
    (last.op = "saveInvoice" /\ WriteRejected)
        => (store = last.pre /\ After = Before)

\* the creation of a second invoice was rejected by the store
C10_Witness ==
    /\ last.op = "saveInvoice"
    /\ last.path = "create"
    /\ WriteRejected
    /\ Len(After) = 1

\* C11: when deleteInvoice is called with the id of a stored invoice and the
\* store rejects the write, the failure reaches the caller as a raised
\* QuotaExceeded or WriteError storage error; the call does not return
\* normally.
C11_DeleteFailurePropagates ==
    (last.op = "deleteInvoice" /\ last.id \in IdsOf(Before) /\ WriteRejected)
        => (last.ret.kind = "throw" /\ last.ret.code \in {QUOTA_EXCEEDED, WRITE_ERROR})

\* the last call reached saveData
CalledSaveData == "thrown" \in DOMAIN last

\* localStorage.length when the last call began (no call of Storage
\* changes the theme item)
LengthBefore ==
    (IF last.pre.kind = "none" THEN 0 ELSE 1) + (IF theme = "none" THEN 0 ELSE 1)

\* C12 as stated: whenever the store signals that its quota is exceeded,
\* saveData raises QuotaExceeded; for every other write failure it raises
\* WriteError; it never returns normally after a failed write.
C12_ClassifiesAsStated ==
    CalledSaveData =>
        /\ last.w = "quota" => last.thrown = QUOTA_EXCEEDED
        /\ last.w = "other" => last.thrown = WRITE_ERROR
        /\ last.w # "ok" => last.thrown # "none"

\* C12 amended: saveData raises QuotaExceeded whenever the store signals
\* that its quota is exceeded while localStorage holds at least one item;
\* for every other write failure, a quota signal of an empty localStorage
\* included, it raises WriteError; it never returns normally after a failed
\* write, and raises nothing after a write that succeeded.
C12_Classifies ==
    CalledSaveData =>
        /\ (last.w = "quota" /\ LengthBefore # 0) => last.thrown = QUOTA_EXCEEDED
        /\ (last.w = "quota" /\ LengthBefore = 0) => last.thrown = WRITE_ERROR
        /\ last.w = "other" => last.thrown = WRITE_ERROR
        /\ last.w # "ok" => last.thrown # "none"
        /\ last.w = "ok" => last.thrown = "none"

\* saveInvoice met a quota signal while localStorage held no item, and
\* threw a WriteError
C12_Witness ==
    /\ last.op = "saveInvoice"
    /\ last.w = "quota"
    /\ LengthBefore = 0
    /\ last.ret = Throw(WRITE_ERROR)

\* C13: getData never writes to the store: with no stored item it returns
\* the default document (current version, no invoices, default settings) and
\* the store stays empty; with a stored text that fails to parse it returns
\* the same default document and the stored text stays the corrupted
\* original.
C13_GetDataNeverWrites ==
    last.op = "getData" =>
        /\ store = last.pre
        /\ last.pre = NoItem =>
              /\ last.ret = Return([version |-> APP_VERSION, invoices |-> <<>>,
                                    settings |-> [currency |-> "USD", defaultTaxRate |-> 0]])
              /\ store = NoItem
        /\ last.pre = Corrupt =>
              /\ last.ret = Return([version |-> APP_VERSION, invoices |-> <<>>,
                                    settings |-> [currency |-> "USD", defaultTaxRate |-> 0]])
              /\ store = Corrupt

\* getData fell back to the defaults over a text that does not parse
C13_Witness ==
    /\ last.op = "getData"
    /\ last.pre = Corrupt
    /\ last.ret = Return(_getDefaults)
    /\ store = Corrupt

\* the document text has a version tag
HasVersion(st) == st.kind = "json" /\ Has(st.doc, "version")

C16_DegradedIsSilent ==
    (last.op # "none" /\ last.pre = Unavailable) =>
        /\ store = Unavailable
        /\ last.op = "init" => last.path = "unavailable"
        /\ last.op \in {"getData", "getInvoices", "saveInvoice", "deleteInvoice"} =>
              last.ret.kind = "return"

\* C19: the theme preference is decoupled from the document: toggling the
\* theme never changes the item stored under the key of the application
\* data, and no operation of Storage (init, saveInvoice, deleteInvoice and
\* the saveData they call) changes the item stored under the theme key.
C19_ThemeDecoupled ==
    [][/\ last'.op = "toggleTheme" => store' = store
       /\ last'.op \in {"init", "saveInvoice", "deleteInvoice"} => theme' = theme]_vars

\* the theme was toggled back to dark while an invoice is stored
C19_Witness ==
    /\ last.op = "toggleTheme"
    /\ last.w = "ok"
    /\ theme = "dark"
    /\ Len(getInvoices(store)) > 0

\* the strings a search looks at in an invoice: its id, the name and email
\* of its client, its status and the descriptions of its line items
Searchable(inv) ==
    {Get(inv, f) : f \in {"id", "status"}}
    \cup (IF Has(inv, "client") THEN {Get(inv["client"], f) : f \in {"name", "email"}} ELSE {})
    \cup (IF Has(inv, "items")
          THEN {Get(inv["items"].elems[i], "description") : i \in 1..Len(inv["items"].elems)}
          ELSE {})

\* the invoice matches the query as the specification words it
Matches(inv, query) ==
    \/ query \in {Undefined, ""}
    \/ \E v \in Searchable(inv) \ {Undefined} :
          includes(toLowerCase(Chars[v]), toLowerCase(Chars[query]))

\* sub lists the entries of all at the positions in P, in their order
IsSelection(sub, all, P) ==
    /\ Len(sub) = Cardinality(P)
    /\ \A k \in 1..Len(sub) :
          \E i \in P : /\ sub[k] = all[i]
                       /\ Cardinality({j \in P : j < i}) = k - 1

\* C15: searchInvoices(query) returns exactly the stored invoices that
\* match, in their stored order: with an empty or absent query every
\* invoice matches; otherwise an invoice matches iff the lower-cased query
\* is a substring of its lower-cased id, client name, client email or
\* status, or of the lower-cased description of one of its line items.
C15_SearchIsExact ==
    last.op = "searchInvoices" =>
        /\ last.ret.kind = "return"
        /\ IsSelection(last.ret.value, Before,
                       {i \in 1..Len(Before) : Matches(Before[i], last.query)})

\* the query "@ACME" found the one invoice whose client has the email
\* billing@acme.com, the last of three stored invoices
C15_Witness ==
    /\ last.op = "searchInvoices"
    /\ last.query = "@ACME"
    /\ Len(Before) = 3
    /\ last.ret.value = <<Before[3]>>

\* C17: with two tabs over the same localStorage, each call of Storage
\* running to its end before the next, saves are last-write-wins without
\* conflict detection: when a tab saves a valid invoice with the id of an
\* invoice the other tab saved before, the save is not rejected, and the
\* stored record then holds, for every field both saves supplied, the value
\* of this last save.
C17_LastWriteWins ==
    \A t \in Tabs, u \in Tabs :
        (/\ t # u
         /\ last.op = "saveInvoice"
         /\ sessions.latest = t
         /\ last.w = "ok"
         /\ ~FailsValidation(last.arg)
         /\ sessions.saved[u] # <<>>
         /\ Get(sessions.saved[u][1], "id") = Get(Incoming, "id"))
        => /\ last.ret = Return(TRUE)
           /\ sessions.saved[t] = <<Incoming>>
           /\ LET got == getInvoice(store, Get(Incoming, "id"))
              IN /\ got # <<>>
                 /\ \A f \in DOMAIN Incoming \cap DOMAIN sessions.saved[u][1] :
                       got[1][f] = Incoming[f]

\* tab 2 saved invoice "a" for Globex after tab 1 had saved it for Acme,
\* and the stored invoice is the one for Globex
C17_Witness ==
    /\ SavedOk
    /\ sessions.latest = 2
    /\ sessions.saved[1] # <<>>
    /\ Get(sessions.saved[1][1], "id") = "a"
    /\ sessions.saved[1][1]["client"]["name"] = "Acme"
    /\ Get(Incoming, "id") = "a"
    /\ Incoming["client"]["name"] = "Globex"
    /\ getInvoice(store, "a")[1]["client"]["name"] = "Globex"
    /\ getInvoice(store, "a")[1]["notes"] = ""

\* the invoice carries the fields that calculateInvoice sets: every item's
\* amount, subtotal, taxAmount and total
IsCalculated(inv) ==
    /\ \A f \in {"items", "taxRate", "subtotal", "taxAmount", "total"} : Has(inv, f)
    /\ \A i \in 1..Len(inv["items"].elems) :
          inv["items"].elems[i]["amount"] =
              inv["items"].elems[i]["quantity"] * inv["items"].elems[i]["rate"]
    /\ inv["subtotal"] = SumAmounts(inv["items"].elems)
    /\ inv["taxAmount"] * 100 = inv["subtotal"] * inv["taxRate"]
    /\ inv["total"] = inv["subtotal"] + inv["taxAmount"]

\* C18: on every execution of handleSave, the only caller of saveInvoice in
\* the presentation code, the invoice handed to Storage.saveInvoice is the
\* result of Model.calculateInvoice applied to the data of the form: it holds
\* the fields of the form and the amounts, subtotal, taxAmount and total
\* calculated from them.
C18_CalculatedBeforeSave ==
    last.op = "saveInvoice" =>
        LET f == sessions.submitted
        IN /\ last.arg.type = "object"
           /\ IsCalculated(Incoming)
           /\ Incoming["id"] = f.id
           /\ Incoming["client"]["name"] = f.clientName
           /\ Incoming["notes"] = f.notes
           /\ Incoming["taxRate"] = parseFloatOr0(f.taxRate)
           /\ Len(Incoming["items"].elems) = Len(f.rows)
           /\ \A i \in 1..Len(f.rows) :
                 /\ Incoming["items"].elems[i]["description"] = f.rows[i].desc
                 /\ Incoming["items"].elems[i]["quantity"] = parseFloatOr0(f.rows[i].qty)
                 /\ Incoming["items"].elems[i]["rate"] = parseFloatOr0(f.rows[i].rate)

\* a new invoice of two hours of hosting at 10 with 10 percent tax was
\* saved with subtotal 20, taxAmount 2 and total 22
C18_Witness ==
    /\ CreatedOk
    /\ form[1].id = ""
    /\ Incoming["subtotal"] = 20
    /\ Incoming["taxAmount"] = 2
    /\ Incoming["total"] = 22
    /\ After[Len(After)]["total"] = 22

\* C20: saveInvoice signals a validation failure by throwing a
\* StorageError: for an invoice that fails validation the call raises
\* StorageError and returns no value.
C20_ValidationThrows ==
    (last.op = "saveInvoice" /\ FailsValidation(last.arg)) => last.ret.kind = "throw"

\* C21: saveInvoice returns false only for a validation failure: for an
\* invoice that passes validation, over every content of the store, the
\* call returns true with the invoice persisted, or raises QuotaExceeded
\* or WriteError.
C21_FalseOnlyOnValidation ==
    (last.op = "saveInvoice" /\ ~FailsValidation(last.arg))
        => \/ SavedOk /\ SavedId \in IdsOf(After)
           \/ last.ret.kind = "throw" /\ last.ret.code \in {QUOTA_EXCEEDED, WRITE_ERROR}

\* the last call was a saveInvoice of a valid invoice over an unparseable item
SavedOverCorrupt ==
    last.op = "saveInvoice" /\ ~FailsValidation(last.arg) /\ last.pre = Corrupt

\* the item holds the default document with exactly the incoming invoice
HoldsDefaultsWithIncoming ==
    /\ store.kind = "json"
    /\ DOMAIN store.doc = DOMAIN _getDefaults
    /\ store.doc["version"] = APP_VERSION
    /\ store.doc["settings"] = _getDefaults["settings"]
    /\ Len(After) = 1
    /\ Get(After[1], "id") = SavedId
    /\ \A f \in DOMAIN Incoming \ {"id", "createdDate"} : HoldsValueOf(After[1], Incoming, f)

\* the calls that read, and deleteInvoice
ReadOrDelete ==
    last.op \in {"deleteInvoice", "getData", "getInvoices", "searchInvoices"}

\* C22 as stated: when the stored blob is unparseable, a saveInvoice of a
\* valid invoice returns true and replaces the blob with a default document
\* that contains exactly that invoice, while deleteInvoice and the read
\* operations leave the blob in place.
C22_CorruptReplacedAsStated ==
    /\ SavedOverCorrupt => (last.ret = Return(TRUE) /\ HoldsDefaultsWithIncoming)
    /\ (ReadOrDelete /\ last.pre = Corrupt) => store = Corrupt

\* C22: when the stored blob is unparseable and the store accepts the
\* write, a saveInvoice of a valid invoice returns true and replaces the
\* blob with a default document that contains exactly that invoice; when
\* the store rejects the write the call raises a storage error and the
\* blob stays; deleteInvoice and the read operations leave the blob in
\* place.
C22_CorruptReplaced ==
    /\ (SavedOverCorrupt /\ last.w = "ok")
          => (last.ret = Return(TRUE) /\ HoldsDefaultsWithIncoming)
    /\ (SavedOverCorrupt /\ WriteRejected)
          => (last.ret.kind = "throw" /\ store = Corrupt)
    /\ (ReadOrDelete /\ last.pre = Corrupt) => store = Corrupt

\* a valid invoice was saved over the unparseable item, which is gone
C22_Witness ==
    /\ SavedOverCorrupt
    /\ last.ret = Return(TRUE)
    /\ store.kind = "json"
    /\ Len(After) = 1

\* C26: saveInvoice and deleteInvoice change only the invoices list: when
\* a parseable document is stored, its version tag and its settings record
\* are the same after the call as before it, whether the call succeeds, is
\* rejected by validation or finds nothing to delete.
C26_OnlyInvoicesChange ==
    (last.op \in {"saveInvoice", "deleteInvoice"} /\ last.pre.kind = "json")
        => /\ store.kind = "json"
           /\ Get(store.doc, "version") = Get(last.pre.doc, "version")
           /\ Get(store.doc, "settings") = Get(last.pre.doc, "settings")
           /\ DOMAIN store.doc \ {"invoices"} = DOMAIN last.pre.doc \ {"invoices"}

\* an invoice was saved into the document with the changed settings, which
\* it still carries
C26_Witness ==
    /\ SavedOk
    /\ last.pre = Customised
    /\ store # last.pre
    /\ store.doc["settings"]["currency"] = "EUR"

\* the class that applyTheme puts on the root for a theme
ClassOf(th) == IF th = "light" THEN LIGHT_CLASS ELSE DARK_CLASS

\* C28: with no stored preference the effective theme is dark; every
\* toggle flips the effective theme between dark and light and stores it;
\* after initialization and after every toggle the document root carries
\* exactly the class of the effective theme and not the other class.
C28_ThemeState ==
    /\ theme = "none" => getStoredTheme(theme) = "dark"
    /\ last.op = "toggleTheme"
          => /\ getStoredTheme(theme) # getStoredTheme(last.was)
             /\ getStoredTheme(theme) \in {"dark", "light"}
             /\ theme = getStoredTheme(theme)
             /\ page[last.tab].root = {ClassOf(getStoredTheme(theme))}
    /\ last.op = "themeInit"
          => page[last.tab].root = {ClassOf(getStoredTheme(theme))}

\* C23: view exclusivity: after any sequence of showView calls over the
\* views dashboard, editor, settings and print, exactly one view is
\* visible, namely the one requested last; every other view is hidden and
\* not active.
C23_ViewExclusive ==
    event.handler = "showView"
        => \A v \in ViewIds :
              LET section == page[event.tab].views[v]
              IN IF v = event.view
                 THEN ~section.hidden /\ section.active
                 ELSE section.hidden /\ ~section.active

\* the sum of total over the invoices of the list whose status is one of
\* statuses
SumOfTotals(list, statuses) ==
    LET counted == {i \in 1..Len(list) :
                       Get(list[i], "status") \in statuses /\ Has(list[i], "total")}
        RECURSIVE Sum(_)
        Sum(S) == IF S = {} THEN 0
                  ELSE LET i == CHOOSE j \in S : TRUE IN list[i]["total"] + Sum(S \ {i})
    IN Sum(counted)

\* a handler has called renderDashboard on the list event.rendered
Rendered ==
    \/ event.handler \in {"loadDashboard", "handleSearch"}
    \/ event.handler = "handleDelete" /\ event.ret = Return(TRUE)

\* C24: after every renderDashboard(invoices) call, a call with an empty
\* list included, the displayed total revenue is the sum of total over
\* the paid invoices of the rendered list and the displayed pending
\* amount is the sum of total over its draft and overdue invoices.
C24_StatsOfRenderedList ==
    Rendered
        => /\ page[event.tab].revenue = formatCurrency(SumOfTotals(event.rendered, {"paid"}))
           /\ page[event.tab].pending =
                  formatCurrency(SumOfTotals(event.rendered, {"draft", "overdue"}))

\* C27: handleDelete calls Storage.deleteInvoice only after the user
\* confirmed; when the user declines, the persisted document and the
\* displayed view are unchanged; when the delete succeeds the dashboard is
\* reloaded from the store, so the deleted invoice is no longer listed.
C27_DeleteAfterConfirm ==
    event.handler = "handleDelete"
        => /\ event.called => event.confirmed
           /\ ~event.confirmed
                 => /\ ~event.called
                    /\ store = event.preStore
                    /\ page[event.tab] = event.prePage
           /\ (event.called /\ event.ret = Return(TRUE))
                 => LET p == page[event.tab]
                    IN /\ \A i \in 1..Len(p.rows) : p.rows[i] # event.id
                       /\ {p.rows[i] : i \in 1..Len(p.rows)} = IdsOf(getInvoices(store))
                       /\ Len(p.rows) = Len(getInvoices(store))
                       /\ ~p.views["dashboard"].hidden

\* the user confirmed the deletion of a listed invoice, which is gone from
\* the store and from the list, while another invoice is still listed
C27_Witness ==
    /\ event.handler = "handleDelete"
    /\ event.confirmed
    /\ event.ret = Return(TRUE)
    /\ event.id \in IdsOf(getInvoices(event.preStore))
    /\ event.id \notin IdsOf(getInvoices(store))
    /\ Len(page[event.tab].rows) = 1

\* C25: when handlePrint(id) is invoked for an existing invoice, the print
\* action fired by its delay timer prints a print view populated with that
\* invoice, whatever other user events (another handlePrint, a print
\* preview, a delete) happen during the delay; for an id with no stored
\* invoice, handlePrint neither renders nor prints.
C25_PrintsTheRequest ==
    /\ event.handler = "printTimer" => event.printed = <<event.requested>>
    /\ (event.handler = "handlePrint" /\ ~event.found)
          => /\ page[event.tab].printView = event.prePage.printView
             /\ page[event.tab].timers = event.prePage.timers
             /\ event.printed = <<>>

====
